---------------------------- MODULE Spec2Model ----------------------------
(***************************************************************************)
(* A model of mango-explorer's Context (src/mango/context.py): the         *)
(* construction and derivation of Context objects against the static       *)
(* registry, the unwrapping of RPC response envelopes, the balance query   *)
(* and the confirmation polling loop.                                      *)
(*                                                                         *)
(* Python values are modelled as records.  A call's outcome is a record    *)
(* [kind |-> "return", value |-> v] or [kind |-> "raise", type |-> t, ...] *)
(* so that an exception is an observable result and not a missing step.    *)
(***************************************************************************)
EXTENDS Integers, Sequences, FiniteSets, TLC

VARIABLES
    heap,       \* Context objects by reference (slot); NoObject where nothing lives
    call,       \* the last call on the Context API: operation, receiver, arguments, outcome
    rpc,        \* the last envelope handed to unwrap_or_raise_exception / fetch_sol_balance
    wait,       \* the running wait_for_confirmation call
    marketlookup, \* the last call on an IdsJsonMarketLookup, with the registry it reads
    builder     \* the last instruction builder constructed

vars == <<heap, call, rpc, wait, marketlookup, builder>>

-----------------------------------------------------------------------------
(* Bounds *)

\* Number of object slots: the module-level default_context plus the
\* Contexts a caller keeps alive at once.
MaxContexts == 3

\* Largest max_wait_in_seconds a caller passes to wait_for_confirmation.
MaxWait == 3

-----------------------------------------------------------------------------
(* Outcomes of a call *)

None == [none |-> TRUE]

Return(v) == [kind |-> "return", value |-> v]

Raise(t) == [kind |-> "raise", type |-> t]

\* raise Exception(f"Error response from server: '{message}', code: {code}")
ServerError(message, code) ==
    [kind |-> "raise", type |-> "Exception", message |-> message, code |-> code]

-----------------------------------------------------------------------------
(* The static registry, MangoConstants (ids.json) *)

OLD_3_TOKEN_GROUP_ID == "7pVYhpKUHw88neQHxgExSH6cerMZ1Axx1ALQP9sxtvQV"

OLD_3_TOKEN_PROGRAM_ID == "JD3bq9hGdy38PuWQ4h2YJpELmHVGPPfFSuFkpzAd9zfu"

MangoConstants ==
    [cluster_urls |->
        ("mainnet-beta" :> "https://solana-api.projectserum.com" @@
         "devnet"       :> "https://api.devnet.solana.com"),
     clusters |->
        ("mainnet-beta" :>
            [mango_program_id |-> "mainnet_mango_program",
             dex_program_id   |-> "mainnet_dex_program",
             mango_groups     |->
                ("BTC_ETH_USDT"         :> [mango_group_pk |-> OLD_3_TOKEN_GROUP_ID] @@
                 "BTC_ETH_SOL_SRM_USDC" :> [mango_group_pk |-> "mainnet_5_token_group"])] @@
         "devnet" :>
            [mango_program_id |-> "devnet_mango_program",
             dex_program_id   |-> "devnet_dex_program",
             mango_groups     |->
                ("BTC_ETH_USDT"         :> [mango_group_pk |-> "devnet_3_token_group"] @@
                 "BTC_ETH_SOL_SRM_USDC" :> [mango_group_pk |-> "devnet_5_token_group"])])]

\* MangoConstants["cluster_urls"][cluster] succeeds
HasClusterUrl(cluster) == cluster \in DOMAIN MangoConstants.cluster_urls

\* MangoConstants[cluster] succeeds
HasCluster(cluster) == cluster \in DOMAIN MangoConstants.clusters

\* MangoConstants[cluster]["mango_groups"][group_name] succeeds
HasGroup(cluster, group_name) ==
    /\ HasCluster(cluster)
    /\ group_name \in DOMAIN MangoConstants.clusters[cluster].mango_groups

RegistryUrl(cluster) == MangoConstants.cluster_urls[cluster]

RegistryProgramId(cluster) == MangoConstants.clusters[cluster].mango_program_id

RegistryDexProgramId(cluster) == MangoConstants.clusters[cluster].dex_program_id

RegistryGroupId(cluster, group_name) ==
    MangoConstants.clusters[cluster].mango_groups[group_name].mango_group_pk

-----------------------------------------------------------------------------
(* Module-level defaults; no environment variable is set *)

default_cluster == "mainnet-beta"

default_cluster_url == RegistryUrl(default_cluster)

default_program_id == RegistryProgramId(default_cluster)

default_dex_program_id == RegistryDexProgramId(default_cluster)

default_group_name == "BTC_ETH_USDT"

default_group_id == RegistryGroupId(default_cluster, default_group_name)

UnknownGroupName == "« Unknown Group »"

-----------------------------------------------------------------------------
(* Context.__init__ *)

Client(cluster_url) == [endpoint |-> cluster_url]

\* Context.__init__ without the legacy substitution: the supplied program id
\* is stored whatever the group.
Context_NoSubstitution(cluster, cluster_url, program_id, dex_program_id, group_name, group_id) ==
    [cluster        |-> cluster,
     cluster_url    |-> cluster_url,
     client         |-> Client(cluster_url),
     program_id     |-> program_id,
     dex_program_id |-> dex_program_id,
     group_name     |-> group_name,
     group_id       |-> group_id,
     commitment     |-> "single",
     encoding       |-> "base64",
     retry_pauses   |-> <<4, 8, 16, 20, 30>>]


Context(cluster, cluster_url, program_id, dex_program_id, group_name, group_id) ==
    LET configured_program_id ==
            IF group_id = OLD_3_TOKEN_GROUP_ID
            THEN OLD_3_TOKEN_PROGRAM_ID
            ELSE program_id
    IN  [cluster        |-> cluster,
         cluster_url    |-> cluster_url,
         client         |-> Client(cluster_url),
         program_id     |-> configured_program_id,
         dex_program_id |-> dex_program_id,
         group_name     |-> group_name,
         group_id       |-> group_id,
         commitment     |-> "single",
         encoding       |-> "base64",
         retry_pauses   |-> <<4, 8, 16, 20, 30>>]

default_context ==
    Context(default_cluster, default_cluster_url, default_program_id,
            default_dex_program_id, default_group_name, default_group_id)


-----------------------------------------------------------------------------
(* Objects and references *)

\* The references (slots) of the object store.  default_context lives at
\* DefaultSlot for the whole run; an object a caller has dropped may have its
\* slot reused by a later construction.
Slots == 1..MaxContexts

DefaultSlot == 1

NoObject == [free |-> TRUE]

Live(h, ref) == h[ref] # NoObject

\* Where a constructor may place a new object when called on receiver self
\* (self = 0 for a static factory): never over default_context or the receiver.
FreshSlots(self) == Slots \ {DefaultSlot, self}

\* Context(...) evaluated by a method: the new object is stored and its
\* reference returned.
Construct(h, fresh, obj) == [heap |-> [h EXCEPT ![fresh] = obj], out |-> Return(fresh)]

Fail(h, type) == [heap |-> h, out |-> Raise(type)]

-----------------------------------------------------------------------------
(* Derivation methods: each takes the object store, the receiver's          *)
(* reference and its arguments, and yields the store and the outcome.      *)

\* new_from_cluster that carries the receiver's dex program over instead of
\* reading the target cluster's.
new_from_cluster_KeepsDex(h, self, cluster, fresh) ==
    IF ~HasClusterUrl(cluster) \/ ~HasCluster(cluster)
       \/ ~HasGroup(cluster, h[self].group_name)
    THEN Fail(h, "KeyError")
    ELSE Construct(h, fresh,
             Context(cluster, RegistryUrl(cluster), RegistryProgramId(cluster),
                     h[self].dex_program_id, h[self].group_name,
                     RegistryGroupId(cluster, h[self].group_name)))


new_from_cluster(h, self, cluster, fresh) ==
    IF ~HasClusterUrl(cluster) \/ ~HasCluster(cluster)
       \/ ~HasGroup(cluster, h[self].group_name)
    THEN Fail(h, "KeyError")
    ELSE LET cluster_url    == RegistryUrl(cluster)
             program_id     == RegistryProgramId(cluster)
             dex_program_id == RegistryDexProgramId(cluster)
             group_id       == RegistryGroupId(cluster, h[self].group_name)
         IN  Construct(h, fresh,
                 Context(cluster, cluster_url, program_id, dex_program_id,
                         h[self].group_name, group_id))

\* new_from_cluster_url that re-points the receiver and returns it.
new_from_cluster_url_InPlace(h, self, cluster_url, fresh) ==
    [heap |-> [h EXCEPT ![self].cluster_url = cluster_url,
                        ![self].client = Client(cluster_url)],
     out  |-> Return(self)]


new_from_cluster_url(h, self, cluster_url, fresh) ==
    Construct(h, fresh,
        Context(h[self].cluster, cluster_url, h[self].program_id,
                h[self].dex_program_id, h[self].group_name, h[self].group_id))

\* new_from_group_name that always carries the receiver's program id over.
new_from_group_name_KeepsProgram(h, self, group_name, fresh) ==
    IF ~HasGroup(h[self].cluster, group_name)
    THEN Fail(h, "KeyError")
    ELSE Construct(h, fresh,
             Context(h[self].cluster, h[self].cluster_url, h[self].program_id,
                     h[self].dex_program_id, group_name,
                     RegistryGroupId(h[self].cluster, group_name)))

new_from_group_name(h, self, group_name, fresh) ==
    IF ~HasGroup(h[self].cluster, group_name)
    THEN Fail(h, "KeyError")
    ELSE LET group_id   == RegistryGroupId(h[self].cluster, group_name)
             program_id == IF h[self].group_id = OLD_3_TOKEN_GROUP_ID
                           THEN RegistryProgramId(h[self].cluster)
                           ELSE h[self].program_id
         IN  Construct(h, fresh,
                 Context(h[self].cluster, h[self].cluster_url, program_id,
                         h[self].dex_program_id, group_name, group_id))

\* The order in which the registry lists its group names (a dict iterates in
\* insertion order).
GroupOrder == <<"BTC_ETH_USDT", "BTC_ETH_SOL_SRM_USDC">>

\* The loop of new_from_group_id: the first name, in registry order, whose
\* address is group_id, or the "unknown" label when the loop finds none.
LookupGroupName(cluster, group_id) ==
    LET groups  == MangoConstants.clusters[cluster].mango_groups
        matches == {i \in DOMAIN GroupOrder :
                        /\ GroupOrder[i] \in DOMAIN groups
                        /\ groups[GroupOrder[i]].mango_group_pk = group_id}
    IN  IF matches = {}
        THEN UnknownGroupName
        ELSE GroupOrder[CHOOSE i \in matches : \A j \in matches : i <= j]

new_from_group_id(h, self, group_id, fresh) ==
    IF ~HasCluster(h[self].cluster)
    THEN Fail(h, "KeyError")
    ELSE LET actual_group_name == LookupGroupName(h[self].cluster, group_id)
             program_id == IF h[self].group_id = OLD_3_TOKEN_GROUP_ID
                           THEN RegistryProgramId(h[self].cluster)
                           ELSE h[self].program_id
         IN  Construct(h, fresh,
                 Context(h[self].cluster, h[self].cluster_url, program_id,
                         h[self].dex_program_id, actual_group_name, group_id))

-----------------------------------------------------------------------------
(* Static factories *)

from_command_line(h, cluster, cluster_url, program_id, dex_program_id, group_name, group_id, fresh) ==
    IF (group_name # default_group_name) /\ (group_id = default_group_id)
    THEN IF ~HasGroup(cluster, group_name)
         THEN Fail(h, "KeyError")
         ELSE Construct(h, fresh,
                  Context(cluster, cluster_url, program_id, dex_program_id,
                          group_name, RegistryGroupId(cluster, group_name)))
    ELSE Construct(h, fresh,
             Context(cluster, cluster_url, program_id, dex_program_id,
                     group_name, group_id))

from_cluster_and_group_name(h, cluster, group_name, fresh) ==
    IF ~HasClusterUrl(cluster) \/ ~HasCluster(cluster) \/ ~HasGroup(cluster, group_name)
    THEN Fail(h, "KeyError")
    ELSE Construct(h, fresh,
             Context(cluster, RegistryUrl(cluster), RegistryProgramId(cluster),
                     RegistryDexProgramId(cluster), group_name,
                     RegistryGroupId(cluster, group_name)))

\* from_context_command_line_parameters that passes the group id through.
from_context_command_line_parameters_NoLookup(h, args, fresh) ==
    LET program_id == IF args.group_id = "7pVYhpKUHw88neQHxgExSH6cerMZ1Axx1ALQP9sxtvQV"
                      THEN "JD3bq9hGdy38PuWQ4h2YJpELmHVGPPfFSuFkpzAd9zfu"
                      ELSE args.program_id
    IN  Construct(h, fresh,
            Context(args.cluster, args.cluster_url, program_id,
                    args.dex_program_id, args.group_name, args.group_id))


from_context_command_line_parameters(h, args, fresh) ==
    LET lookup   == (args.group_name # default_group_name)
                        /\ (args.group_id = default_group_id)
    IN  IF lookup /\ ~HasGroup(args.cluster, args.group_name)
        THEN Fail(h, "KeyError")
        ELSE LET group_id   == IF lookup
                               THEN RegistryGroupId(args.cluster, args.group_name)
                               ELSE args.group_id
                 program_id == IF group_id = "7pVYhpKUHw88neQHxgExSH6cerMZ1Axx1ALQP9sxtvQV"
                               THEN "JD3bq9hGdy38PuWQ4h2YJpELmHVGPPfFSuFkpzAd9zfu"
                               ELSE args.program_id
             IN  Construct(h, fresh,
                     Context(args.cluster, args.cluster_url, program_id,
                             args.dex_program_id, args.group_name, group_id))

-----------------------------------------------------------------------------
(* The arguments callers pass *)

ClusterArgs == {"mainnet-beta", "devnet", "localnet"}

RegisteredClusterArgs == {c \in ClusterArgs : HasCluster(c)}

ClusterUrlArgs == {"https://api.mainnet-beta.solana.com", "https://api.rpcpool.com"}

ProgramIdArgs == {default_program_id, OLD_3_TOKEN_PROGRAM_ID}

GroupNameArgs == {"BTC_ETH_USDT", "BTC_ETH_SOL_SRM_USDC", "NO_SUCH_GROUP"}

GroupIdArgs == {OLD_3_TOKEN_GROUP_ID, "mainnet_5_token_group", "unlisted_group"}

\* A parsed command line (argparse.Namespace); every flag has a value, its
\* own or the default_* one.
CommandLineArgs ==
    [cluster        : RegisteredClusterArgs,
     cluster_url    : {default_cluster_url},
     program_id     : ProgramIdArgs,
     dex_program_id : {default_dex_program_id},
     group_name     : GroupNameArgs,
     group_id       : GroupIdArgs]

-----------------------------------------------------------------------------
(* Calls on the Context API *)

NoCall == [op |-> "import", self |-> 0, before |-> None, args |-> None, out |-> Return(DefaultSlot)]

\* The objects the caller still refers to after a call: default_context (a
\* module global), the receiver and the returned object.  Python reclaims
\* the rest, which frees their slots.
Kept(self, out) ==
    {DefaultSlot, self} \cup (IF out.kind = "return" THEN {out.value} ELSE {})

\* A call of operation op on receiver self (0: none) with arguments args
\* whose effect and outcome are r.  Calls are synchronous: none starts while
\* wait_for_confirmation is blocking the caller.
Invoke(op, self, args, r) ==
    /\ wait.pc \in {"idle", "done"}
    /\ heap' = [s \in Slots |-> IF s \in Kept(self, r.out) THEN r.heap[s] ELSE NoObject]
    /\ call' = [op     |-> op,
                self   |-> self,
                before |-> IF self = 0 THEN None ELSE heap[self],
                args   |-> args,
                out    |-> r.out]
    /\ UNCHANGED <<rpc, wait, marketlookup, builder>>

Receivers == {s \in Slots : Live(heap, s)}

\* Context(cluster, cluster_url, program_id, dex_program_id, group_name, group_id)
NewContext ==
    \E a \in CommandLineArgs, fresh \in FreshSlots(0) :
        Invoke("Context", 0, a,
               Construct(heap, fresh,
                   Context(a.cluster, a.cluster_url, a.program_id,
                           a.dex_program_id, a.group_name, a.group_id)))

NewFromCluster ==
    \E self \in Receivers, cluster \in ClusterArgs : \E fresh \in FreshSlots(self) :
        Invoke("new_from_cluster", self, [cluster |-> cluster],
               new_from_cluster(heap, self, cluster, fresh))

NewFromClusterUrl ==
    \E self \in Receivers, cluster_url \in ClusterUrlArgs : \E fresh \in FreshSlots(self) :
        Invoke("new_from_cluster_url", self, [cluster_url |-> cluster_url],
               new_from_cluster_url(heap, self, cluster_url, fresh))

NewFromGroupName ==
    \E self \in Receivers, group_name \in GroupNameArgs : \E fresh \in FreshSlots(self) :
        Invoke("new_from_group_name", self, [group_name |-> group_name],
               new_from_group_name(heap, self, group_name, fresh))

NewFromGroupId ==
    \E self \in Receivers, group_id \in GroupIdArgs : \E fresh \in FreshSlots(self) :
        Invoke("new_from_group_id", self, [group_id |-> group_id],
               new_from_group_id(heap, self, group_id, fresh))

FromCommandLine ==
    \E a \in CommandLineArgs, fresh \in FreshSlots(0) :
        Invoke("from_command_line", 0, a,
               from_command_line(heap, a.cluster, a.cluster_url, a.program_id,
                                 a.dex_program_id, a.group_name, a.group_id, fresh))

FromClusterAndGroupName ==
    \E cluster \in ClusterArgs, group_name \in GroupNameArgs, fresh \in FreshSlots(0) :
        Invoke("from_cluster_and_group_name", 0,
               [cluster |-> cluster, group_name |-> group_name],
               from_cluster_and_group_name(heap, cluster, group_name, fresh))

FromContextCommandLineParameters ==
    \E a \in CommandLineArgs, fresh \in FreshSlots(0) :
        Invoke("from_context_command_line_parameters", 0, a,
               from_context_command_line_parameters(heap, a, fresh))

-----------------------------------------------------------------------------
(* Specification of Context construction and derivation *)

NoRpc == [op |-> "none"]

NoMarketLookup == [op |-> "none"]

NoBuilder == [op |-> "none"]

NoWait ==
    [pc                  |-> "idle",
     self                |-> 0,
     transaction_id      |-> "",
     max_wait_in_seconds |-> 0,
     next                |-> 0,
     wait                |-> [bound |-> FALSE],
     events              |-> << >>,
     out                 |-> None]

\* The module has been imported: default_context exists, nothing was called.
Init ==
    /\ heap = [s \in Slots |-> IF s = DefaultSlot THEN default_context ELSE NoObject]
    /\ call = NoCall
    /\ rpc = NoRpc
    /\ wait = NoWait
    /\ marketlookup = NoMarketLookup
    /\ builder = NoBuilder

Next ==
    \/ NewContext
    \/ NewFromCluster
    \/ NewFromClusterUrl
    \/ NewFromGroupName
    \/ NewFromGroupId
    \/ FromCommandLine
    \/ FromClusterAndGroupName
    \/ FromContextCommandLineParameters

Spec == Init /\ [][Next]_vars

-----------------------------------------------------------------------------
(* Properties of Context construction and derivation (Spec) *)

Returned == call.out.kind = "return"

\* The Context object the last call returned.
Result == heap[call.out.value]

Derivations ==
    {"new_from_cluster", "new_from_cluster_url", "new_from_group_name", "new_from_group_id"}

\* C1: every Context, whatever path constructed it, that has the legacy
\* 3-token group as its group_id has the legacy program as its program_id.
C1_LegacyGroupHasLegacyProgram ==
    \A s \in Slots :
        (Live(heap, s) /\ heap[s].group_id = OLD_3_TOKEN_GROUP_ID)
            => heap[s].program_id = OLD_3_TOKEN_PROGRAM_ID

\* A Context has been derived into the legacy group from a Context that
\* carried another program id.
C1_Witness ==
    /\ call.op = "new_from_group_id"
    /\ Returned
    /\ Result.group_id = OLD_3_TOKEN_GROUP_ID
    /\ call.before.program_id # OLD_3_TOKEN_PROGRAM_ID
    /\ Result.program_id = OLD_3_TOKEN_PROGRAM_ID

\* new_from_cluster was called with a cluster the registry knows, on a
\* Context whose group name that cluster lists.
C2_Case ==
    /\ call.op = "new_from_cluster"
    /\ HasClusterUrl(call.args.cluster)
    /\ HasGroup(call.args.cluster, call.before.group_name)

\* C2 as stated: new_from_cluster(C) yields cluster C and the URL, program
\* id, dex program id and group id that the registry holds for C and the
\* receiver's group name.
C2_Original ==
    C2_Case =>
        /\ Returned
        /\ Result.cluster = call.args.cluster
        /\ Result.cluster_url = RegistryUrl(call.args.cluster)
        /\ Result.program_id = RegistryProgramId(call.args.cluster)
        /\ Result.dex_program_id = RegistryDexProgramId(call.args.cluster)
        /\ Result.group_id = RegistryGroupId(call.args.cluster, call.before.group_name)

\* C2 amended: as C2, except that program_id is the legacy program constant
\* when the group id the registry gives is the legacy 3-token group.
C2_Amended ==
    C2_Case =>
        /\ Returned
        /\ Result.cluster = call.args.cluster
        /\ Result.cluster_url = RegistryUrl(call.args.cluster)
        /\ Result.program_id =
              (IF RegistryGroupId(call.args.cluster, call.before.group_name)
                     = OLD_3_TOKEN_GROUP_ID
               THEN OLD_3_TOKEN_PROGRAM_ID
               ELSE RegistryProgramId(call.args.cluster))
        /\ Result.dex_program_id = RegistryDexProgramId(call.args.cluster)
        /\ Result.group_id = RegistryGroupId(call.args.cluster, call.before.group_name)

\* A Context of one cluster has been taken to another cluster, where its
\* group name has another address.
C2_Witness ==
    /\ C2_Case
    /\ Returned
    /\ call.before.cluster # call.args.cluster
    /\ Result.group_id # call.before.group_id
    /\ Result.cluster_url # call.before.cluster_url

\* The command line names a group other than the default one and leaves the
\* group id at its default.
C3_Lookup ==
    /\ call.args.group_name # default_group_name
    /\ call.args.group_id = default_group_id

\* C3: the two command-line factories give the Context the registry address
\* of the named group when a non-default group name comes with the default
\* group id, and the supplied group id in every other case.
C3_GroupIdResolution ==
    call.op \in {"from_command_line", "from_context_command_line_parameters"} =>
        IF C3_Lookup
        THEN HasGroup(call.args.cluster, call.args.group_name) =>
                /\ Returned
                /\ Result.group_id =
                      RegistryGroupId(call.args.cluster, call.args.group_name)
        ELSE /\ Returned
             /\ Result.group_id = call.args.group_id

\* from_context_command_line_parameters has replaced the default group id by
\* the address of the named group.
C3_Witness ==
    /\ call.op = "from_context_command_line_parameters"
    /\ C3_Lookup
    /\ Returned
    /\ Result.group_id # call.args.group_id
    /\ Result.group_id = RegistryGroupId(call.args.cluster, call.args.group_name)

\* C9: a derivation method leaves every field of its receiver as it was
\* before the call, whether it returns or raises, and what it returns is
\* another object than the receiver and than default_context.
C9_DerivationLeavesReceiver ==
    call.op \in Derivations =>
        /\ heap[call.self] = call.before
        /\ heap[DefaultSlot] = default_context
        /\ Returned => call.out.value \notin {call.self, DefaultSlot}

\* A derivation has returned a Context that differs from its receiver.
C9_Witness ==
    /\ call.op = "new_from_cluster_url"
    /\ Returned
    /\ Live(heap, call.self)
    /\ Result.cluster_url # heap[call.self].cluster_url

\* A derivation has raised.
C9_WitnessFailure ==
    /\ call.op \in Derivations
    /\ ~Returned

-----------------------------------------------------------------------------
(* RPC response envelopes *)

\* Python values of an envelope: a str, a dict with message and code, and
\* the class object str itself.
PyStr(text) == [type |-> "str", value |-> text]

RPCError(message, code) == [type |-> "dict", message |-> message, code |-> code]

StrClass == [type |-> "type", name |-> "str"]

ErrorTexts == {"oops", "bad", "Node is behind"}

\* The error values a server sends: a bare string or a structured error.
ErrorValues ==
    {PyStr(text) : text \in ErrorTexts}
        \cup {RPCError(message, code) : message \in ErrorTexts, code \in {-1, 7, -32002}}

\* The result values a server sends to a balance query.
BalanceResults == {[value |-> lamports] : lamports \in {0, 42, 1500000000}}

ResultValues == BalanceResults \cup {None}

\* An envelope is a dict that carries a result, an error, or both.
Envelopes(results) ==
    {[result |-> r] : r \in results}
        \cup {[error |-> e] : e \in ErrorValues}
        \cup {[result |-> r, error |-> e] : r \in results, e \in ErrorValues}

\* key in dict
In(key, dict) == key \in DOMAIN dict

\* unwrap_or_raise_exception that looks at the result before the error.
unwrap_or_raise_exception_ResultFirst(response) ==
    IF In("result", response)
    THEN Return(response.result)
    ELSE IF response.error.type = "dict"
         THEN ServerError(response.error.message, response.error.code)
         ELSE Raise("TypeError")

\* `response["error"] is str` compares the error value with the class str by
\* identity; error["message"] on a str raises TypeError.
unwrap_or_raise_exception(response) ==
    IF In("error", response)
    THEN IF response.error = StrClass
         THEN ServerError(response.error, -1)
         ELSE IF response.error.type = "dict"
              THEN ServerError(response.error.message, response.error.code)
              ELSE Raise("TypeError")
    ELSE IF In("result", response)
         THEN Return(response.result)
         ELSE Raise("KeyError")

SOL_DECIMAL_DIVISOR == 1000000000

\* Decimal(value) / divisor, exact for the integers involved: the whole
\* units and the remaining fraction in units of 1/divisor.
DecimalQuotient(value, divisor) ==
    [whole |-> value \div divisor, fraction |-> value % divisor, scale |-> divisor]

\* fetch_sol_balance on the envelope that client.get_balance answered.
fetch_sol_balance(self, result) ==
    IF ~In("result", result)
    THEN Raise("KeyError")
    ELSE Return(DecimalQuotient(result.result.value, SOL_DECIMAL_DIVISOR))

\* self.client.get_balance(account_public_key, commitment=self.commitment)
GetBalance(self, account_public_key) ==
    [method     |-> "getBalance",
     endpoint   |-> self.client.endpoint,
     account    |-> account_public_key,
     commitment |-> self.commitment]

Unwrap ==
    \E response \in Envelopes(ResultValues) :
        /\ rpc' = [op       |-> "unwrap_or_raise_exception",
                   response |-> response,
                   out      |-> unwrap_or_raise_exception(response)]
        /\ UNCHANGED <<heap, call, wait, marketlookup, builder>>

FetchSolBalance ==
    \E self \in Receivers, response \in Envelopes(BalanceResults) :
        /\ rpc' = [op       |-> "fetch_sol_balance",
                   request  |-> GetBalance(heap[self], "account"),
                   response |-> response,
                   out      |-> fetch_sol_balance(heap[self], response)]
        /\ UNCHANGED <<heap, call, wait, marketlookup, builder>>

NextRpc ==
    \/ Unwrap
    \/ FetchSolBalance

SpecRpc == Init /\ [][NextRpc]_vars

-----------------------------------------------------------------------------
(* Properties of the RPC helpers (SpecRpc) *)

Unwrapped == rpc.op = "unwrap_or_raise_exception"

\* C4: an envelope whose error is a bare string s makes
\* unwrap_or_raise_exception raise the generic error with message s and
\* code -1.
C4_BareStringError ==
    (Unwrapped /\ In("error", rpc.response) /\ rpc.response.error.type = "str")
        => rpc.out = ServerError(rpc.response.error.value, -1)

\* C5: unwrap_or_raise_exception returns exactly when the envelope has no
\* error field, and then returns the result field; a structured error makes
\* it raise the generic error with that message and code, a result field
\* notwithstanding.
C5_UnwrapResultOrStructuredError ==
    Unwrapped =>
        /\ rpc.out.kind = "return" <=> ~In("error", rpc.response)
        /\ rpc.out.kind = "return" => rpc.out.value = rpc.response.result
        /\ (In("error", rpc.response) /\ rpc.response.error.type = "dict")
              => rpc.out = ServerError(rpc.response.error.message,
                                       rpc.response.error.code)

\* An envelope with both a result and a structured error has been unwrapped
\* and the error raised.
C5_Witness ==
    /\ Unwrapped
    /\ In("error", rpc.response)
    /\ In("result", rpc.response)
    /\ rpc.response.error.type = "dict"
    /\ rpc.out = ServerError(rpc.response.error.message, rpc.response.error.code)

\* C10: fetch_sol_balance fails as unwrap_or_raise_exception does when the
\* balance envelope carries an error, and returns result.value over the
\* lamports divisor when it carries a result and no error.
C10_BalanceUnwrapsEnvelope ==
    rpc.op = "fetch_sol_balance" =>
        IF In("error", rpc.response)
        THEN rpc.out = unwrap_or_raise_exception(rpc.response)
        ELSE rpc.out = Return(DecimalQuotient(rpc.response.result.value,
                                              SOL_DECIMAL_DIVISOR))

-----------------------------------------------------------------------------
(* wait_for_confirmation *)

\* What get_confirmed_transaction answers: a null result (not confirmed
\* yet), the confirmed transaction, or an error envelope.
ConfirmedTransactions == {[slot |-> 1], [slot |-> 2]}

ConfirmationAnswers ==
    {[result |-> None]}
        \cup {[result |-> t] : t \in ConfirmedTransactions}
        \cup {[error |-> RPCError("Node is behind", -32002)]}

\* time.sleep(1)
SleepEvent == [kind |-> "sleep", seconds |-> 1]

\* default_context.client.get_confirmed_transaction(transaction_id)
PollEvent(transaction_id, confirmed) ==
    [kind           |-> "poll",
     endpoint       |-> default_context.client.endpoint,
     transaction_id |-> transaction_id,
     confirmed      |-> confirmed]

\* The frame of a call: `next` is the next value range(0, max) yields, and
\* `wait` the loop variable, unbound until the first iteration binds it.
WaitFrame(self, transaction_id, max_wait_in_seconds) ==
    [pc                  |-> "for",
     self                |-> self,
     transaction_id      |-> transaction_id,
     max_wait_in_seconds |-> max_wait_in_seconds,
     next                |-> 0,
     wait                |-> [bound |-> FALSE],
     events              |-> << >>,
     out                 |-> None]

\* for wait in range(0, max_wait_in_seconds): time.sleep(1)
EnterIteration(w) ==
    [w EXCEPT !.pc = "poll",
              !.wait = [bound |-> TRUE, value |-> w.next],
              !.next = w.next + 1,
              !.events = Append(w.events, SleepEvent)]

\* The poll that goes on to the next iteration whatever was answered.
AfterPoll_NoEarlyReturn(w, confirmed) ==
    LET polled == [w EXCEPT !.events = Append(w.events, PollEvent(w.transaction_id, confirmed))]
    IN  IF ~In("result", confirmed)
        THEN [polled EXCEPT !.pc = "done", !.out = Raise("KeyError")]
        ELSE [polled EXCEPT !.pc = "for"]

\* The poll and the test of its answer: confirmed["result"] raises KeyError
\* on an envelope without a result.
AfterPoll(w, confirmed) ==
    LET polled == [w EXCEPT !.events = Append(w.events, PollEvent(w.transaction_id, confirmed))]
    IN  IF ~In("result", confirmed)
        THEN [polled EXCEPT !.pc = "done", !.out = Raise("KeyError")]
        ELSE IF confirmed.result # None
             THEN [polled EXCEPT !.pc = "done", !.out = Return(confirmed.result)]
             ELSE [polled EXCEPT !.pc = "for"]

\* The range is exhausted: the log line formats `wait`, which raises
\* UnboundLocalError when no iteration has bound it; then return None.
AfterLoop(w) ==
    IF ~w.wait.bound
    THEN [w EXCEPT !.pc = "done", !.out = Raise("UnboundLocalError")]
    ELSE [w EXCEPT !.pc = "done", !.out = Return(None)]

WaitForConfirmation ==
    /\ wait.pc \in {"idle", "done"}
    /\ \E self \in Receivers, max_wait_in_seconds \in 0..MaxWait :
           wait' = WaitFrame(self, "transaction", max_wait_in_seconds)
    /\ UNCHANGED <<heap, call, rpc, marketlookup, builder>>

Sleep ==
    /\ wait.pc = "for"
    /\ wait.next < wait.max_wait_in_seconds
    /\ wait' = EnterIteration(wait)
    /\ UNCHANGED <<heap, call, rpc, marketlookup, builder>>

Poll ==
    /\ wait.pc = "poll"
    /\ \E confirmed \in ConfirmationAnswers : wait' = AfterPoll(wait, confirmed)
    /\ UNCHANGED <<heap, call, rpc, marketlookup, builder>>

TimeOut ==
    /\ wait.pc = "for"
    /\ wait.next >= wait.max_wait_in_seconds
    /\ wait' = AfterLoop(wait)
    /\ UNCHANGED <<heap, call, rpc, marketlookup, builder>>

NextWait ==
    \/ NewFromClusterUrl
    \/ WaitForConfirmation
    \/ Sleep
    \/ Poll
    \/ TimeOut

SpecWait == Init /\ [][NextWait]_vars

-----------------------------------------------------------------------------
(* Properties of wait_for_confirmation (SpecWait) *)

WaitDone == wait.pc = "done"

Polls == {i \in DOMAIN wait.events : wait.events[i].kind = "poll"}

Sleeps == {i \in DOMAIN wait.events : wait.events[i].kind = "sleep"}

\* Every poll so far was answered with a null result.
NeverConfirmed ==
    \A i \in Polls :
        /\ In("result", wait.events[i].confirmed)
        /\ wait.events[i].confirmed.result = None

\* Sleeps and polls alternate, a sleep first.
Alternating ==
    \A i \in DOMAIN wait.events :
        wait.events[i].kind = (IF i % 2 = 1 THEN "sleep" ELSE "poll")

\* C6: against a server that never confirms, wait_for_confirmation(tx, N)
\* ends returning None after N sleeps and N polls in alternation.
C6_TimesOutAfterNPolls ==
    (WaitDone /\ NeverConfirmed) =>
        /\ wait.out = Return(None)
        /\ Cardinality(Polls) = wait.max_wait_in_seconds
        /\ Cardinality(Sleeps) = wait.max_wait_in_seconds
        /\ Alternating

\* C7: a poll answered with a non-null result ends the call at once with
\* that result, no poll or sleep after it; the result returned is that of
\* the first such poll; None is returned only after N polls answered null.
C7_ReturnsFirstConfirmation ==
    /\ \A i \in Polls :
          (In("result", wait.events[i].confirmed)
             /\ wait.events[i].confirmed.result # None)
          => /\ i = Len(wait.events)
             /\ WaitDone
             /\ wait.out = Return(wait.events[i].confirmed.result)
             /\ Cardinality(Polls) <= wait.max_wait_in_seconds
    /\ (WaitDone /\ wait.out.kind = "return" /\ wait.out.value # None)
          => /\ Len(wait.events) \in Polls
             /\ wait.events[Len(wait.events)].confirmed = [result |-> wait.out.value]
    /\ (WaitDone /\ wait.out = Return(None))
          => /\ Cardinality(Polls) = wait.max_wait_in_seconds
             /\ NeverConfirmed

\* The second of three polls was the first to confirm, and its result was
\* returned.
C7_Witness ==
    /\ WaitDone
    /\ wait.max_wait_in_seconds = 3
    /\ Cardinality(Polls) = 2
    /\ wait.out.kind = "return"
    /\ wait.out.value \in ConfirmedTransactions
    /\ wait.events[2].confirmed.result = None

\* C8: a timeout is never an exception: when every poll was answered null,
\* the call does not raise, whatever max_wait_in_seconds >= 0.
C8_TimeoutNeverRaises ==
    (WaitDone /\ NeverConfirmed) => wait.out.kind # "raise"

-----------------------------------------------------------------------------
(* IdsJsonMarketLookup (src/mango/idsjsonmarketlookup.py) *)

\* Longest token sequence handed to _from_dict directly.
MaxTokens == 3

\* The shapes of a market entry of the registry: the address under
\* "publicKey" only, or under "publicKey" and "key" alike.
IdsShapes == {"publicKey", "publicKey+key"}

MarketData(shape, name, baseSymbol, address) ==
    IF shape = "publicKey"
    THEN [name |-> name, baseSymbol |-> baseSymbol, publicKey |-> address]
    ELSE [name |-> name, baseSymbol |-> baseSymbol, publicKey |-> address, key |-> address]

TokenData(symbol) == [symbol |-> symbol, mintKey |-> symbol, decimals |-> 6]

\* MangoConstants["groups"], in file order.
Groups(shape) ==
    << [cluster |-> "devnet", publicKey |-> "devnet_group_1", quoteSymbol |-> "USDC",
        tokens      |-> <<TokenData("USDC"), TokenData("BTC")>>,
        perpMarkets |-> <<MarketData(shape, "BTC-PERP", "BTC", "devnet_btc_perp")>>,
        spotMarkets |-> <<MarketData(shape, "BTC/USDC", "BTC", "devnet_btc_spot")>>],
       [cluster |-> "mainnet-beta", publicKey |-> "mainnet_group", quoteSymbol |-> "USDC",
        tokens      |-> <<TokenData("USDC"), TokenData("BTC"), TokenData("ETH")>>,
        perpMarkets |-> <<MarketData(shape, "BTC-PERP", "BTC", "mainnet_btc_perp"),
                          MarketData(shape, "ETH-PERP", "ETH", "mainnet_eth_perp")>>,
        spotMarkets |-> <<MarketData(shape, "BTC/USDC", "BTC", "mainnet_btc_spot")>>],
       [cluster |-> "testnet", publicKey |-> "testnet_group_1", quoteSymbol |-> "USDC",
        tokens      |-> <<TokenData("USDC"), TokenData("SOL")>>,
        perpMarkets |-> <<MarketData(shape, "SOL-PERP", "SOL", "testnet_sol_perp")>>,
        spotMarkets |-> <<MarketData(shape, "SOL/USDC", "SOL", "testnet_sol_spot")>>],
       [cluster |-> "devnet", publicKey |-> "devnet_group_2", quoteSymbol |-> "USDC",
        tokens      |-> <<TokenData("ETH"), TokenData("USDC")>>,
        perpMarkets |-> <<MarketData(shape, "ETH-PERP", "ETH", "devnet_eth_perp")>>,
        spotMarkets |-> << >>],
       [cluster |-> "testnet", publicKey |-> "testnet_group_2", quoteSymbol |-> "USDC",
        tokens      |-> <<TokenData("USDC")>>,
        perpMarkets |-> << >>,
        spotMarkets |-> << >>] >>

\* Token(symbol, name, mint, decimals)
Token(symbol, name, mint, decimals) ==
    [symbol |-> symbol, name |-> name, mint |-> mint, decimals |-> decimals]

PerpsMarket(base, quote, address) ==
    [type |-> "PerpsMarket", base |-> base, quote |-> quote, address |-> address]

SpotMarket(base, quote, address, group_address) ==
    [type |-> "SpotMarket", base |-> base, quote |-> quote, address |-> address,
     group_address |-> group_address]

\* `tokens[0].symbol == first and tokens[1].symbol == second`, with the
\* IndexError of a subscript that the sequence does not have; `and` does not
\* evaluate its right side when the left is false.
FirstTwoAre(tokens, first, second) ==
    IF Len(tokens) < 1 THEN "IndexError"
    ELSE IF tokens[1].symbol # first THEN "False"
    ELSE IF Len(tokens) < 2 THEN "IndexError"
    ELSE IF tokens[2].symbol = second THEN "True" ELSE "False"

\* _from_dict that accepts the tokens in the order quote, base only.
from_dict_QuoteFirstOnly(market_type, group_address, data, tokens, quote_symbol) ==
    LET quote_base == FirstTwoAre(tokens, quote_symbol, data.baseSymbol)
    IN  IF quote_base = "IndexError" THEN Raise("IndexError")
        ELSE IF quote_base = "False" THEN Raise("Exception")
        ELSE IF market_type = "PERP"
             THEN Return(PerpsMarket(tokens[2], tokens[1], data.publicKey))
             ELSE Return(SpotMarket(tokens[2], tokens[1], data.publicKey, group_address))

from_dict(market_type, group_address, data, tokens, quote_symbol) ==
    LET base_symbol == data.baseSymbol
        quote_base  == FirstTwoAre(tokens, quote_symbol, base_symbol)
        base_quote  == FirstTwoAre(tokens, base_symbol, quote_symbol)
        chosen      == IF quote_base = "True"
                       THEN [base |-> tokens[2], quote |-> tokens[1]]
                       ELSE [base |-> tokens[1], quote |-> tokens[2]]
    IN  IF quote_base = "IndexError" THEN Raise("IndexError")
        ELSE IF quote_base = "False" /\ base_quote = "IndexError" THEN Raise("IndexError")
        ELSE IF quote_base = "False" /\ base_quote = "False" THEN Raise("Exception")
        ELSE IF market_type = "PERP"
             THEN Return(PerpsMarket(chosen.base, chosen.quote, data.publicKey))
             ELSE Return(SpotMarket(chosen.base, chosen.quote, data.publicKey, group_address))

load_tokens(data) ==
    [i \in DOMAIN data |->
        Token(data[i].symbol, data[i].symbol, data[i].mintKey, data[i].decimals)]

\* The markets of one group in the order the loops visit them: the perp
\* markets, then the spot markets.
GroupVisits(group) ==
    [i \in DOMAIN group.perpMarkets |->
        [market_type |-> "PERP", group |-> group, data |-> group.perpMarkets[i]]]
    \o
    [i \in DOMAIN group.spotMarkets |->
        [market_type |-> "SPOT", group |-> group, data |-> group.spotMarkets[i]]]

RECURSIVE VisitsFrom(_, _, _)
VisitsFrom(groups, cluster, i) ==
    IF i > Len(groups)
    THEN << >>
    ELSE (IF groups[i].cluster = cluster THEN GroupVisits(groups[i]) ELSE << >>)
             \o VisitsFrom(groups, cluster, i + 1)

\* for group in MangoConstants["groups"]: if group["cluster"] == self.cluster: ...
Visits(groups, cluster) == VisitsFrom(groups, cluster, 1)

\* tokens = _load_tokens(group["tokens"]); _from_dict(type, group_address, market_data, tokens, group["quoteSymbol"])
Build(visit) ==
    from_dict(visit.market_type, visit.group.publicKey, visit.data,
              load_tokens(visit.group.tokens), visit.group.quoteSymbol)

\* str.upper() on the names and symbols that occur.
Upper(text) ==
    CASE text = "btc-perp" -> "BTC-PERP"
      [] text = "Sol/Usdc" -> "SOL/USDC"
      [] OTHER -> text

RECURSIVE FindBySymbolFrom(_, _, _)
FindBySymbolFrom(visits, i, symbol) ==
    IF i > Len(visits) THEN Return(None)
    ELSE IF Upper(visits[i].data.name) = Upper(symbol) THEN Build(visits[i])
    ELSE FindBySymbolFrom(visits, i + 1, symbol)

find_by_symbol(groups, cluster, symbol) ==
    FindBySymbolFrom(Visits(groups, cluster), 1, symbol)

\* market_data["key"] raises KeyError on an entry without that field.
RECURSIVE FindByAddressFrom(_, _, _)
FindByAddressFrom(visits, i, address) ==
    IF i > Len(visits) THEN Return(None)
    ELSE IF ~In("key", visits[i].data) THEN Raise("KeyError")
    ELSE IF visits[i].data.key = address THEN Build(visits[i])
    ELSE FindByAddressFrom(visits, i + 1, address)

find_by_address(groups, cluster, address) ==
    FindByAddressFrom(Visits(groups, cluster), 1, address)

RECURSIVE AllMarketsAppendingFrom(_, _, _)
AllMarketsAppendingFrom(visits, i, markets) ==
    IF i > Len(visits) THEN Return(markets)
    ELSE LET market == Build(visits[i])
         IN  IF market.kind = "raise" THEN market
             ELSE AllMarketsAppendingFrom(visits, i + 1, Append(markets, market.value))

\* all_markets that appends each market to the list.
all_markets_Appending(groups, cluster) ==
    AllMarketsAppendingFrom(Visits(groups, cluster), 1, << >>)

\* markets = [market] replaces the list at every market visited.
RECURSIVE AllMarketsFrom(_, _, _)
AllMarketsFrom(visits, i, markets) ==
    IF i > Len(visits) THEN Return(markets)
    ELSE LET market == Build(visits[i])
         IN  IF market.kind = "raise" THEN market
             ELSE AllMarketsFrom(visits, i + 1, <<market.value>>)

all_markets(groups, cluster) ==
    AllMarketsFrom(Visits(groups, cluster), 1, << >>)

-----------------------------------------------------------------------------
(* Calls on IdsJsonMarketLookup *)

LookupClusters == {"mainnet-beta", "devnet", "testnet", "localnet"}

SymbolArgs == {"BTC-PERP", "btc-perp", "BTC/USDC", "ETH-PERP", "Sol/Usdc", "DOGE-PERP"}

AddressArgs ==
    {"devnet_btc_perp", "devnet_btc_spot", "devnet_eth_perp", "mainnet_btc_perp",
     "mainnet_eth_perp", "testnet_sol_spot", "unlisted_market"}

TokenArgs == {Token(symbol, symbol, symbol, 6) : symbol \in {"USDC", "BTC", "ETH"}}

RECURSIVE SeqsUpTo(_, _)
SeqsUpTo(elements, n) ==
    IF n = 0 THEN {<< >>}
    ELSE LET shorter == SeqsUpTo(elements, n - 1)
         IN  shorter \cup {Append(q, e) : q \in shorter, e \in elements}

\* The result of a call on IdsJsonMarketLookup(cluster).
Looked(op, cluster, args, out) ==
    /\ marketlookup' = [ids |-> marketlookup.ids, op |-> op, cluster |-> cluster,
                        args |-> args, out |-> out]
    /\ UNCHANGED <<heap, call, rpc, wait, builder>>

FromDict ==
    \E market_type \in {"PERP", "SPOT"}, tokens \in SeqsUpTo(TokenArgs, MaxTokens) :
        LET data == MarketData(marketlookup.ids, "BTC-PERP", "BTC", "devnet_btc_perp")
        IN  Looked("_from_dict", "devnet",
                   [market_type |-> market_type, group_address |-> "devnet_group_1",
                    data |-> data, tokens |-> tokens, quote_symbol |-> "USDC"],
                   from_dict(market_type, "devnet_group_1", data, tokens, "USDC"))

FindBySymbol ==
    \E cluster \in LookupClusters, symbol \in SymbolArgs :
        Looked("find_by_symbol", cluster, [symbol |-> symbol],
               find_by_symbol(Groups(marketlookup.ids), cluster, symbol))

FindByAddress ==
    \E cluster \in LookupClusters, address \in AddressArgs :
        Looked("find_by_address", cluster, [address |-> address],
               find_by_address(Groups(marketlookup.ids), cluster, address))

AllMarkets ==
    \E cluster \in LookupClusters :
        Looked("all_markets", cluster, None,
               all_markets(Groups(marketlookup.ids), cluster))

\* The module has been imported with a registry of either shape.
InitLookup ==
    /\ heap = [s \in Slots |-> IF s = DefaultSlot THEN default_context ELSE NoObject]
    /\ call = NoCall
    /\ rpc = NoRpc
    /\ wait = NoWait
    /\ marketlookup \in {[op |-> "none", ids |-> shape] : shape \in IdsShapes}
    /\ builder = NoBuilder

NextLookup ==
    \/ FromDict
    \/ FindBySymbol
    \/ FindByAddress
    \/ AllMarkets

SpecLookup == InitLookup /\ [][NextLookup]_vars

-----------------------------------------------------------------------------
(* Properties of IdsJsonMarketLookup (SpecLookup) *)

LookupReturned == marketlookup.out.kind = "return"

\* The markets of the active cluster, in the order they are visited.
ActiveVisits == Visits(Groups(marketlookup.ids), marketlookup.cluster)

\* C11: all_markets returns at most one market: none only when no group of
\* the active cluster has a market, and otherwise the market visited last,
\* groups in registry order and perp markets before spot markets in a group.
C11_AllMarketsReturnsLastOnly ==
    (marketlookup.op = "all_markets" /\ LookupReturned) =>
        LET markets == marketlookup.out.value
            last    == ActiveVisits[Len(ActiveVisits)]
        IN  /\ Len(markets) <= 1
            /\ markets = << >> <=> ActiveVisits = << >>
            /\ markets # << >> =>
                  /\ markets[1].address = last.data.publicKey
                  /\ markets[1].type =
                        (IF last.market_type = "PERP" THEN "PerpsMarket" ELSE "SpotMarket")
                  /\ markets[1].base.symbol = last.data.baseSymbol

\* all_markets has visited several markets in two groups and returned the
\* one market visited last.
C11_Witness ==
    /\ marketlookup.op = "all_markets"
    /\ LookupReturned
    /\ Len(ActiveVisits) = 3
    /\ Len(marketlookup.out.value) = 1
    /\ marketlookup.out.value[1].address = "devnet_eth_perp"

\* The symbols of the two given tokens are the quote symbol and the base
\* symbol of the last _from_dict call, in either order.
AreQuoteAndBase(first, second) ==
    LET quote_symbol == marketlookup.args.quote_symbol
        base_symbol  == marketlookup.args.data.baseSymbol
    IN  \/ first.symbol = quote_symbol /\ second.symbol = base_symbol
        \/ first.symbol = base_symbol /\ second.symbol = quote_symbol

\* The Market returned has the token with the base symbol as its base and
\* the token with the quote symbol as its quote, both from the first two
\* tokens supplied.
AssignedAccordingly ==
    LET market == marketlookup.out.value
        tokens == marketlookup.args.tokens
    IN  /\ market.base.symbol = marketlookup.args.data.baseSymbol
        /\ market.quote.symbol = marketlookup.args.quote_symbol
        /\ {market.base, market.quote} = {tokens[1], tokens[2]}

\* C12 as stated: _from_dict returns a Market exactly when two tokens are
\* supplied and their symbols are the quote and the base symbol in either
\* order, base and quote assigned accordingly; any other token sequence
\* makes it fail.
C12_Original ==
    marketlookup.op = "_from_dict" =>
        LET tokens == marketlookup.args.tokens
            two    == Len(tokens) = 2 /\ AreQuoteAndBase(tokens[1], tokens[2])
        IN  /\ LookupReturned <=> two
            /\ two => AssignedAccordingly
            /\ ~two => marketlookup.out.kind = "raise"

\* C12 amended: _from_dict returns a Market exactly when at least two tokens
\* are supplied and the symbols of the first two are the quote and the base
\* symbol in either order, base and quote assigned accordingly and further
\* tokens ignored; any other token sequence makes it raise: the
\* configuration error when the first two tokens (or a lone token) carry
\* other symbols, IndexError when a token it reads is missing.
C12_Amended ==
    marketlookup.op = "_from_dict" =>
        LET tokens   == marketlookup.args.tokens
            firstTwo == Len(tokens) >= 2 /\ AreQuoteAndBase(tokens[1], tokens[2])
            lone     == Len(tokens) = 1
                            /\ tokens[1].symbol \notin {marketlookup.args.quote_symbol,
                                                        marketlookup.args.data.baseSymbol}
        IN  /\ LookupReturned <=> firstTwo
            /\ firstTwo => AssignedAccordingly
            /\ (~firstTwo /\ (Len(tokens) >= 2 \/ lone))
                  => marketlookup.out = Raise("Exception")
            /\ (Len(tokens) < 2 /\ ~lone) => marketlookup.out = Raise("IndexError")

\* _from_dict was given three tokens, base first and quote second, and
\* returned a Market.
C12_Witness ==
    /\ marketlookup.op = "_from_dict"
    /\ Len(marketlookup.args.tokens) = 3
    /\ marketlookup.args.tokens[1].symbol = marketlookup.args.data.baseSymbol
    /\ LookupReturned
    /\ marketlookup.out.value.quote = marketlookup.args.tokens[2]

-----------------------------------------------------------------------------
(* TransferSplTokensInstructionBuilder *)

\* Largest quantity and largest number of token decimals a caller passes.
MaxQuantity == 7

MaxDecimals == 3

\* 10 ** decimals
RECURSIVE Pow10(_)
Pow10(decimals) == IF decimals = 0 THEN 1 ELSE 10 * Pow10(decimals - 1)

\* The builder that stores the quantity as it was given.
TransferSplTokensInstructionBuilder_Unscaled(context, wallet, token, source, destination, quantity) ==
    [context     |-> context,
     wallet      |-> wallet,
     token       |-> token,
     source      |-> source,
     destination |-> destination,
     amount      |-> quantity]

\* The constructor: the inputs as given, and the quantity in base units,
\* int(quantity * (10 ** token.decimals)), which for an integral quantity is
\* the product itself.
TransferSplTokensInstructionBuilder(context, wallet, token, source, destination, quantity) ==
    [context     |-> context,
     wallet      |-> wallet,
     token       |-> token,
     source      |-> source,
     destination |-> destination,
     amount      |-> quantity * Pow10(token.decimals)]

\* fake_token(), with some number of decimals
FakeTokens == {Token("FAKE", "Fake Token", "fake_mint", decimals) : decimals \in 0..MaxDecimals}

\* fake_seeded_public_key(...)
SplAccounts == {"source SPL account", "destination SPL account"}

NewTransferSplTokensInstructionBuilder ==
    \E token \in FakeTokens, source \in SplAccounts, destination \in SplAccounts,
       quantity \in 0..MaxQuantity :
        LET wallet == [fake |-> "Wallet"]
        IN  /\ builder' =
                  [op   |-> "TransferSplTokensInstructionBuilder",
                   args |-> [context |-> heap[DefaultSlot], wallet |-> wallet,
                             token |-> token, source |-> source,
                             destination |-> destination, quantity |-> quantity],
                   actual |-> TransferSplTokensInstructionBuilder(
                                  heap[DefaultSlot], wallet, token, source,
                                  destination, quantity)]
            /\ UNCHANGED <<heap, call, rpc, wait, marketlookup>>

NextBuilder == NewTransferSplTokensInstructionBuilder

SpecBuilder == Init /\ [][NextBuilder]_vars

\* C13: the builder's amount is the quantity times ten to the token's
\* decimals, and context, wallet, token, source and destination are stored
\* as supplied.
C13_AmountInBaseUnits ==
    builder.op = "TransferSplTokensInstructionBuilder" =>
        /\ builder.actual.amount = builder.args.quantity * (10 ^ builder.args.token.decimals)
        /\ builder.actual.context = builder.args.context
        /\ builder.actual.wallet = builder.args.wallet
        /\ builder.actual.token = builder.args.token
        /\ builder.actual.source = builder.args.source
        /\ builder.actual.destination = builder.args.destination

\* A builder for 7 tokens of 2 decimals holds the amount 700.
C13_Witness ==
    /\ builder.op = "TransferSplTokensInstructionBuilder"
    /\ builder.args.quantity = 7
    /\ builder.args.token.decimals = 2
    /\ builder.actual.amount = 700
    /\ builder.args.source # builder.args.destination

-----------------------------------------------------------------------------
(* Derivation chains from from_cluster_and_group_name (SpecDerive) *)

NextDerive ==
    \/ FromClusterAndGroupName
    \/ NewFromCluster
    \/ NewFromClusterUrl
    \/ NewFromGroupName
    \/ NewFromGroupId

\* Every Context of a run is built by from_cluster_and_group_name or derived
\* from one; default_context, the one Context of the initial state, is what
\* from_cluster_and_group_name(default_cluster, default_group_name) builds.
SpecDerive == Init /\ [][NextDerive]_vars

\* The program id that belongs to a group id in a cluster.
ProgramIdOf(cluster, group_id) ==
    IF group_id = OLD_3_TOKEN_GROUP_ID
    THEN OLD_3_TOKEN_PROGRAM_ID
    ELSE RegistryProgramId(cluster)

\* C14: after any sequence of derivations from a Context built by
\* from_cluster_and_group_name, program_id is the legacy program when
\* group_id is the legacy group and the registry's program of the Context's
\* cluster otherwise.
C14_ProgramIdFollowsGroupAndCluster ==
    /\ from_cluster_and_group_name(heap, default_cluster, default_group_name, 2).heap[2]
          = default_context
    /\ \A s \in Slots :
          Live(heap, s) =>
              heap[s].program_id = ProgramIdOf(heap[s].cluster, heap[s].group_id)

\* A Context of the legacy group has been derived away from it and carries
\* the registry's program id, no longer the legacy one.
C14_Witness ==
    /\ call.op = "new_from_group_name"
    /\ Returned
    /\ call.self # DefaultSlot
    /\ call.before.group_id = OLD_3_TOKEN_GROUP_ID
    /\ call.before.program_id = OLD_3_TOKEN_PROGRAM_ID
    /\ Result.group_id # OLD_3_TOKEN_GROUP_ID
    /\ Result.program_id = RegistryProgramId(Result.cluster)
    /\ Result.program_id # OLD_3_TOKEN_PROGRAM_ID

-----------------------------------------------------------------------------
(* The connection wait_for_confirmation polls through (SpecWait) *)

\* C15: while wait_for_confirmation runs on a Context, every poll it has
\* made went to that Context's endpoint.
C15_PollsThroughOwnClient ==
    wait.pc \in {"for", "poll"} =>
        \A i \in Polls :
            wait.events[i].endpoint = heap[wait.self].client.endpoint

-----------------------------------------------------------------------------
(* find_by_address against the addresses _from_dict gives Markets (SpecLookup) *)

\* C16: a Market returned by find_by_address(a) has address a, and
\* find_by_address(a) returns None, without raising, when no perp or spot
\* market of the active cluster has address a.
C16_FindByAddress ==
    marketlookup.op = "find_by_address" =>
        /\ (LookupReturned /\ marketlookup.out.value # None) =>
               marketlookup.out.value.address = marketlookup.args.address
        /\ (\A i \in DOMAIN ActiveVisits :
                ActiveVisits[i].data.publicKey # marketlookup.args.address) =>
               marketlookup.out = Return(None)

=============================================================================
